---- MODULE Spec2Model ----
(***************************************************************************)
(* Model of scripts/generate_llm_comparison_chart.py.                      *)
(*                                                                         *)
(* The script is one straight-line run: it samples a domain of request     *)
(* volumes, evaluates a linear (cloud) and an affine (self-hosted) cost     *)
(* at every sample, marks the sample whose absolute cost gap is least as   *)
(* the "break-even point", draws the chart and writes it to two files.     *)
(*                                                                         *)
(* The literals of lines 12-22 (the domain, the two rates and the initial  *)
(* investment) are the run's configuration cfg.  Init draws cfg from the   *)
(* script's own literals (ScriptConfig), from the worked example of the    *)
(* specification (ExampleConfig) and from every small configuration        *)
(* (GeneralConfigs).                                                       *)
(*                                                                         *)
(* Numbers.  numpy computes in IEEE-754 doubles.  Every quantity of the    *)
(* model is an integer count of a volume unit and of a money unit, so all  *)
(* products, sums and differences below are integers far below 2^53, on    *)
(* which double arithmetic is exact.  For ScriptConfig the volume unit is  *)
(* the linspace step, 100000/999 requests, and the money unit is what the  *)
(* self-hosted marginal rate charges for one step, 20/999 dollar; the gaps *)
(* the script compares there differ by about 0.18 dollar between adjacent  *)
(* samples, eleven orders of magnitude above double rounding error, so the *)
(* ordering of the gaps is the ordering of the exact values.  The same     *)
(* holds of ExampleConfig (money unit 0.1), whose two least gaps are 0.4   *)
(* and 0.5.  Configurations whose products are not exactly representable   *)
(* and whose gaps tie to within rounding error are outside the model.      *)
(***************************************************************************)
EXTENDS Integers, Sequences, FiniteSets, TLC

VARIABLES cfg, pc, requests, cloud_cost, self_hosted_cost,
          break_even_idx, break_even_requests, break_even_cost,
          files, stdout, saves, run, history

vars == <<cfg, pc, requests, cloud_cost, self_hosted_cost,
          break_even_idx, break_even_requests, break_even_cost,
          files, stdout, saves, run, history>>

(***************************************************************************)
(* Bounds of the model.                                                    *)
(***************************************************************************)
MaxVol == 5
MaxRate == 2
MaxOffset == 5
MaxRuns == 2

(***************************************************************************)
(* Literals of the script.                                                 *)
(***************************************************************************)
\* np.linspace(0, 100000, 1000)
StopVolume == 100000
NumSamples == 1000
\* 0.002 and 0.0002 dollar per request, as numerators over RateDen
RateDen == 10000
CloudRateNum == 20
SelfRateNum == 2
\* initial_investment = 10000
InitialInvestment == 10000
\* cloud_cost[800], self_hosted_cost[800]
AnnotateIndex == 800

output_path == "c:/Dev/jonsteinarfolstad.github.io/images/llm-comparison.png"
output_path_hd == "c:/Dev/jonsteinarfolstad.github.io/images/llm-comparison-hd.png"

MsgSaved == "Chart saved to: c:/Dev/jonsteinarfolstad.github.io/images/llm-comparison.png"
MsgSavedHd == "High-res chart saved to: c:/Dev/jonsteinarfolstad.github.io/images/llm-comparison-hd.png"
MsgComplete == "Chart generation complete!"

\* A name the run has not bound yet.
Unset == -1

EmptyArray == [i \in {} |-> 0]

Abs(x) == IF x < 0 THEN -x ELSE x

Size(a) == Cardinality(DOMAIN a)

(***************************************************************************)
(* Configurations.                                                         *)
(***************************************************************************)
\* The cost, in dollars times (NumSamples - 1), that the self-hosted
\* marginal rate charges for one linspace step: the money unit of
\* ScriptConfig is StepCostNum / (NumSamples - 1) dollar.
StepCostNum == (StopVolume * SelfRateNum) \div RateDen

\* np.linspace(0, stop, num) counted in steps of stop / (num - 1).
linspace(num) == [i \in 0..(num - 1) |-> i]

ScriptConfig ==
    [domain  |-> linspace(NumSamples),
     rateA   |-> CloudRateNum \div SelfRateNum,
     rateB   |-> SelfRateNum \div SelfRateNum,
     offsetB |-> (InitialInvestment * (NumSamples - 1)) \div StepCostNum]

\* Domain 0..10 sampled at integers, rateA = 1, rateB = 0.1, offsetB = 5;
\* the money unit is 0.1.
ExampleConfig ==
    [domain |-> [i \in 0..10 |-> i], rateA |-> 10, rateB |-> 1, offsetB |-> 50]

\* The strictly increasing array holding the members of S.
SortedArray(S) ==
    [i \in 0..(Cardinality(S) - 1) |->
        CHOOSE x \in S : Cardinality({y \in S : y < x}) = i]

Domains == {SortedArray(S) : S \in (SUBSET (0..MaxVol)) \ {{}}}

GeneralConfigs ==
    [domain : Domains, rateA : 0..MaxRate, rateB : 0..MaxRate,
     offsetB : 0..MaxOffset]

Configs == GeneralConfigs \cup {ScriptConfig, ExampleConfig}

(***************************************************************************)
(* The computation.                                                        *)
(***************************************************************************)
\* requests * rate
CloudCost(req, rate) == [i \in DOMAIN req |-> req[i] * rate]

\* initial_investment + (requests * rate)
SelfHostedCost(req, offset, rate) == [i \in DOMAIN req |-> offset + req[i] * rate]

\* A faulty variant of AbsDiff: the absolute value is forgotten.
SignedDiff(a, b) == [i \in DOMAIN a |-> a[i] - b[i]]

\* np.abs(a - b)
AbsDiff(a, b) == [i \in DOMAIN a |-> Abs(a[i] - b[i])]

\* np.argmin(a), a non-empty: the index of the least element, and of its
\* first occurrence when it occurs more than once.  The scan is evaluated
\* by halves (the left half's minimum yields only to a strictly smaller
\* one on the right), which keeps the evaluation of a 1000-sample domain
\* shallow.
RECURSIVE ArgMinIn(_, _, _)
ArgMinIn(a, lo, hi) ==
    IF lo >= hi THEN lo
    ELSE LET mid == (lo + hi) \div 2
             l == ArgMinIn(a, lo, mid)
             r == ArgMinIn(a, mid + 1, hi)
         IN  IF a[r] < a[l] THEN r ELSE l

\* Faulty variants of ArgMin: the last occurrence wins; the maximum is
\* searched.
RECURSIVE ArgMinLastIn(_, _, _)
ArgMinLastIn(a, lo, hi) ==
    IF lo >= hi THEN lo
    ELSE LET mid == (lo + hi) \div 2
             l == ArgMinLastIn(a, lo, mid)
             r == ArgMinLastIn(a, mid + 1, hi)
         IN  IF a[r] <= a[l] THEN r ELSE l

ArgMinLast(a) == ArgMinLastIn(a, 0, Size(a) - 1)

RECURSIVE ArgMaxIn(_, _, _)
ArgMaxIn(a, lo, hi) ==
    IF lo >= hi THEN lo
    ELSE LET mid == (lo + hi) \div 2
             l == ArgMaxIn(a, lo, mid)
             r == ArgMaxIn(a, mid + 1, hi)
         IN  IF a[r] > a[l] THEN r ELSE l

ArgMax(a) == ArgMaxIn(a, 0, Size(a) - 1)

ArgMin(a) == ArgMinIn(a, 0, Size(a) - 1)

\* The index the script marks for a domain, two rates and an offset.
BreakEvenIdx(req, rA, rB, offset) ==
    ArgMin(AbsDiff(CloudCost(req, rA), SelfHostedCost(req, offset, rB)))

(***************************************************************************)
(* The run.                                                                *)
(***************************************************************************)
Init ==
    /\ cfg \in Configs
    /\ pc = "start"
    /\ requests = EmptyArray
    /\ cloud_cost = EmptyArray
    /\ self_hosted_cost = EmptyArray
    /\ break_even_idx = Unset
    /\ break_even_requests = Unset
    /\ break_even_cost = Unset
    /\ files = {}
    /\ stdout = <<>>
    /\ saves = <<>>
    /\ run = 1
    /\ history = <<>>

\* Lines 12-22.
GenerateData ==
    /\ pc = "start"
    /\ requests' = cfg.domain
    /\ cloud_cost' = CloudCost(cfg.domain, cfg.rateA)
    /\ self_hosted_cost' = SelfHostedCost(cfg.domain, cfg.offsetB, cfg.rateB)
    /\ pc' = "data"
    /\ UNCHANGED <<cfg, break_even_idx, break_even_requests, break_even_cost,
                   files, stdout, saves, run, history>>

\* Faulty variants of FindBreakEven: the cost marked is the self-hosted one; the
\* difference is computed in place, into cloud_cost.
FindBreakEvenSelfCost ==
    /\ pc = "data"
    /\ LET idx == ArgMin(AbsDiff(cloud_cost, self_hosted_cost))
       IN  /\ break_even_idx' = idx
           /\ break_even_requests' = requests[idx]
           /\ break_even_cost' = self_hosted_cost[idx]
           /\ history' = Append(history, <<idx, requests[idx], self_hosted_cost[idx]>>)
    /\ pc' = "found"
    /\ UNCHANGED <<cfg, requests, cloud_cost, self_hosted_cost,
                   files, stdout, saves, run>>

FindBreakEvenInPlace ==
    /\ pc = "data"
    /\ LET diff == AbsDiff(cloud_cost, self_hosted_cost)
           idx == ArgMin(diff)
       IN  /\ cloud_cost' = diff
           /\ break_even_idx' = idx
           /\ break_even_requests' = requests[idx]
           /\ break_even_cost' = diff[idx]
           /\ history' = Append(history, <<idx, requests[idx], diff[idx]>>)
    /\ pc' = "found"
    /\ UNCHANGED <<cfg, requests, self_hosted_cost, files, stdout, saves, run>>

\* Lines 31-33.  history records what each run computed.
FindBreakEven ==
    /\ pc = "data"
    /\ LET idx == ArgMin(AbsDiff(cloud_cost, self_hosted_cost))
       IN  /\ break_even_idx' = idx
           /\ break_even_requests' = requests[idx]
           /\ break_even_cost' = cloud_cost[idx]
           /\ history' = Append(history, <<idx, requests[idx], cloud_cost[idx]>>)
    /\ pc' = "found"
    /\ UNCHANGED <<cfg, requests, cloud_cost, self_hosted_cost,
                   files, stdout, saves, run>>

\* Lines 36-83: the marker, the annotations, the labels.  The only part
\* that reads the data by a fixed position is cloud_cost[800] and
\* self_hosted_cost[800], an IndexError on a shorter domain.
Decorate ==
    /\ pc = "found"
    /\ pc' = IF AnnotateIndex \in DOMAIN cloud_cost
                /\ AnnotateIndex \in DOMAIN self_hosted_cost
             THEN "drawn" ELSE "crashed"
    /\ UNCHANGED <<cfg, requests, cloud_cost, self_hosted_cost, break_even_idx,
                   break_even_requests, break_even_cost, files, stdout, saves,
                   run, history>>

\* A faulty variant of SaveStandard: a failed write is swallowed and the run goes on.
SaveStandardSwallow ==
    /\ pc = "drawn"
    /\ \E ok \in BOOLEAN :
         /\ saves' = Append(saves, [path |-> output_path, ok |-> ok])
         /\ files' = IF ok THEN files \cup {output_path} ELSE files
         /\ stdout' = IF ok THEN Append(stdout, MsgSaved) ELSE stdout
         /\ pc' = "saved"
    /\ UNCHANGED <<cfg, requests, cloud_cost, self_hosted_cost, break_even_idx,
                   break_even_requests, break_even_cost, run, history>>

\* Lines 86-88.  plt.savefig either writes the file or raises; nothing
\* catches the exception, so the interpreter exits.
SaveStandard ==
    /\ pc = "drawn"
    /\ \E ok \in BOOLEAN :
         /\ saves' = Append(saves, [path |-> output_path, ok |-> ok])
         /\ IF ok
            THEN /\ files' = files \cup {output_path}
                 /\ stdout' = Append(stdout, MsgSaved)
                 /\ pc' = "saved"
            ELSE /\ pc' = "crashed"
                 /\ UNCHANGED <<files, stdout>>
    /\ UNCHANGED <<cfg, requests, cloud_cost, self_hosted_cost, break_even_idx,
                   break_even_requests, break_even_cost, run, history>>

\* Lines 91-93.
SaveHd ==
    /\ pc = "saved"
    /\ \E ok \in BOOLEAN :
         /\ saves' = Append(saves, [path |-> output_path_hd, ok |-> ok])
         /\ IF ok
            THEN /\ files' = files \cup {output_path_hd}
                 /\ stdout' = Append(stdout, MsgSavedHd)
                 /\ pc' = "saved_hd"
            ELSE /\ pc' = "crashed"
                 /\ UNCHANGED <<files, stdout>>
    /\ UNCHANGED <<cfg, requests, cloud_cost, self_hosted_cost, break_even_idx,
                   break_even_requests, break_even_cost, run, history>>

\* Lines 95-96.
ShowAndReport ==
    /\ pc = "saved_hd"
    /\ stdout' = Append(stdout, MsgComplete)
    /\ pc' = "done"
    /\ UNCHANGED <<cfg, requests, cloud_cost, self_hosted_cost, break_even_idx,
                   break_even_requests, break_even_cost, files, saves, run,
                   history>>

\* The script is invoked again: a fresh interpreter, in which no name of
\* the earlier run is bound.  Only the files on disk outlive a run.
Rerun ==
    /\ pc \in {"done", "crashed"}
    /\ run < MaxRuns
    /\ run' = run + 1
    /\ pc' = "start"
    /\ requests' = EmptyArray
    /\ cloud_cost' = EmptyArray
    /\ self_hosted_cost' = EmptyArray
    /\ break_even_idx' = Unset
    /\ break_even_requests' = Unset
    /\ break_even_cost' = Unset
    /\ stdout' = <<>>
    /\ saves' = <<>>
    /\ UNCHANGED <<cfg, files, history>>

Next ==
    \/ GenerateData
    \/ FindBreakEven
    \/ Decorate
    \/ SaveStandard
    \/ SaveHd
    \/ ShowAndReport
    \/ Rerun

Spec == Init /\ [][Next]_vars

(***************************************************************************)
(* What the claims speak of, stated on the configuration and not on the    *)
(* arrays the run computed.                                                *)
(***************************************************************************)
Computed == break_even_idx # Unset

LastIdx == Size(cfg.domain) - 1

CostA(v) == cfg.rateA * v

CostB(v) == cfg.offsetB + cfg.rateB * v

ExactGap(v) == Abs(CostA(v) - CostB(v))

GapSet == {ExactGap(cfg.domain[j]) : j \in DOMAIN cfg.domain}

MinGap == CHOOSE g \in GapSet : \A h \in GapSet : g <= h

\* C1: the sample marked is a sample of the domain (index in 0..N-1), and
\* its absolute cost gap is at most the gap at every sample of the domain.
C1_MinimalGap ==
    Computed =>
        /\ break_even_idx \in 0..LastIdx
        /\ break_even_requests = cfg.domain[break_even_idx]
        /\ \A j \in DOMAIN cfg.domain :
             ExactGap(break_even_requests) <= ExactGap(cfg.domain[j])

\* The marked sample lies strictly inside the domain and no gap is zero.
C1_Witness ==
    /\ Computed
    /\ 0 < break_even_idx
    /\ break_even_idx < LastIdx
    /\ MinGap > 0

\* C2: when several samples share the least gap, the one of lowest index is
\* marked: no sample of a smaller index has a gap equal to the minimum.
C2_FirstMinimum ==
    Computed =>
        LET least == MinGap
        IN  /\ ExactGap(cfg.domain[break_even_idx]) = least
            /\ \A j \in 0..(break_even_idx - 1) : ExactGap(cfg.domain[j]) # least

\* Two samples share the least gap.
C2_Witness ==
    /\ Computed
    /\ LET least == MinGap
       IN  \E j \in DOMAIN cfg.domain :
               j > break_even_idx /\ ExactGap(cfg.domain[j]) = least

\* C3, as claimed: with rateA > rateB >= 0 and offsetB > 0, at the marked
\* sample and at every sample beyond it the affine cost is not greater than
\* the linear cost.
C3_Original ==
    (Computed /\ cfg.rateA > cfg.rateB /\ cfg.offsetB > 0) =>
        \A j \in break_even_idx..LastIdx :
            CostB(cfg.domain[j]) <= CostA(cfg.domain[j])

\* C3, amended: with rateA > rateB >= 0 and offsetB > 0, if the affine cost
\* is not greater than the linear cost at some sample of the domain, then
\* it is not greater at every sample strictly beyond the marked one.
C3_BeyondMarked ==
    (/\ Computed
     /\ cfg.rateA > cfg.rateB
     /\ cfg.offsetB > 0
     /\ \E k \in DOMAIN cfg.domain : CostB(cfg.domain[k]) <= CostA(cfg.domain[k]))
    => \A j \in (break_even_idx + 1)..LastIdx :
           CostB(cfg.domain[j]) <= CostA(cfg.domain[j])

\* The curves cross inside the domain, the marked sample lies below the
\* crossing and samples follow it.
C3_Witness ==
    /\ Computed
    /\ cfg.rateA > cfg.rateB
    /\ cfg.offsetB > 0
    /\ break_even_idx < LastIdx
    /\ CostB(break_even_requests) > CostA(break_even_requests)
    /\ CostB(cfg.domain[LastIdx]) < CostA(cfg.domain[LastIdx])

NeverCross ==
    \/ \A j \in DOMAIN cfg.domain : CostA(cfg.domain[j]) < CostB(cfg.domain[j])
    \/ \A j \in DOMAIN cfg.domain : CostA(cfg.domain[j]) > CostB(cfg.domain[j])

VolumeFor(offset) ==
    cfg.domain[BreakEvenIdx(cfg.domain, cfg.rateA, cfg.rateB, offset)]

CrossingInside ==
    /\ cfg.rateA > cfg.rateB
    /\ (cfg.rateA - cfg.rateB) * cfg.domain[0] <= cfg.offsetB
    /\ cfg.offsetB <= (cfg.rateA - cfg.rateB) * cfg.domain[LastIdx]

\* |v - v*| multiplied by rateA - rateB
DistToCrossing(v) == Abs((cfg.rateA - cfg.rateB) * v - cfg.offsetB)

EvenStep(h) ==
    /\ LastIdx >= 1
    /\ \A i \in 0..(LastIdx - 1) : cfg.domain[i + 1] - cfg.domain[i] = h

\* C7: when rateA > rateB and the exact crossing lies inside the domain, no
\* sample is strictly closer to the crossing than the marked one; on an
\* evenly spaced grid the marked sample is within half a step of it; and
\* for the domain 0..10, rateA = 1, rateB = 0.1, offsetB = 5 it is 6.
C7_NearestToCrossing ==
    /\ (Computed /\ CrossingInside) =>
          /\ \A j \in DOMAIN cfg.domain :
               DistToCrossing(break_even_requests) <= DistToCrossing(cfg.domain[j])
          /\ \A h \in 1..MaxVol :
               EvenStep(h) =>
                   2 * DistToCrossing(break_even_requests)
                       <= h * (cfg.rateA - cfg.rateB)
    /\ (Computed /\ cfg = ExampleConfig) => break_even_requests = 6

\* The worked example has run.
C7_Witness ==
    /\ Computed
    /\ cfg = ExampleConfig
    /\ CrossingInside
    /\ EvenStep(1)
    /\ break_even_requests = 6

Failed(k) == ~saves[k].ok

\* C9: a run computes the break-even point, then writes the standard file,
\* then the high-resolution file, then reports completion; a write that
\* fails ends the run there: it is the last write attempted, the standard
\* write's failure leaves the high-resolution write unattempted, and the
\* completion message is not printed.
C9_WritesInOrderAndFaultsPropagate ==
    /\ Len(saves) <= 2
    /\ Len(saves) >= 1 => (Computed /\ saves[1].path = output_path)
    /\ Len(saves) >= 2 => (saves[1].ok /\ saves[2].path = output_path_hd)
    /\ \A k \in 1..Len(saves) :
         /\ saves[k].ok => saves[k].path \in files
         /\ Failed(k) =>
              /\ k = Len(saves)
              /\ pc = "crashed"
              /\ \A m \in 1..Len(stdout) : stdout[m] # MsgComplete
    /\ (\E m \in 1..Len(stdout) : stdout[m] = MsgComplete) =>
         /\ Len(saves) = 2
         /\ saves[1].ok
         /\ saves[2].ok
         /\ stdout = <<MsgSaved, MsgSavedHd, MsgComplete>>

\* The standard write failed.
C9_Witness ==
    /\ pc = "crashed"
    /\ Len(saves) = 1
    /\ Failed(1)

\* C10: with the script's own literals the cloud cost is strictly lower
\* than the self-hosted cost at every sample, the sample marked is the last
\* one (index 999, volume 100000), the cost reported is the cloud cost
\* there, 200 dollars, and the self-hosted cost there is 10020 dollars.
C10_ScriptMarksLastSample ==
    (Computed /\ cfg = ScriptConfig) =>
        /\ \A i \in DOMAIN cloud_cost : cloud_cost[i] < self_hosted_cost[i]
        /\ break_even_idx = 999
        /\ break_even_idx = NumSamples - 1
        /\ break_even_requests * StopVolume = 100000 * (NumSamples - 1)
        /\ break_even_cost = cloud_cost[break_even_idx]
        /\ break_even_cost * StepCostNum = 200 * (NumSamples - 1)
        /\ self_hosted_cost[break_even_idx] * StepCostNum = 10020 * (NumSamples - 1)

\* The script's own configuration has been computed.
C10_Witness ==
    /\ Computed
    /\ cfg = ScriptConfig
    /\ Size(requests) = 1000

====
